---- MODULE Spec2Model ----
(***************************************************************************)
(* cookie_jar: a terminal application that stores "cookies" (short notes)  *)
(* in named "buckets" in a libsql store with a local replica.              *)
(*                                                                         *)
(* The module models                                                       *)
(*   - the two tables created by db::init_schema and the connection state  *)
(*     read by "SELECT last_insert_rowid()",                               *)
(*   - the persistence operations of db.rs as operators over that state,   *)
(*   - main()'s startup sequence and menu loop (specification Spec),       *)
(*   - the persistence operations called with arbitrary arguments          *)
(*     (specification SpecDb).                                             *)
(*                                                                         *)
(* A content string is represented by its number of characters and the     *)
(* number of UTF-8 bytes of each character; a bucket name by its rank in   *)
(* the store's BINARY collation order.                                     *)
(***************************************************************************)
EXTENDS Integers, Sequences, FiniteSets, TLC

\* ---------------------------------------------------------------- bounds
\* number of distinct bucket names the user can type
NumNames == 2
\* largest value chrono::Utc::now().timestamp() takes (seconds)
MaxTime == 1
\* number of cookies after which no further cookie is inserted
MaxCookies == 3
\* largest number of UTF-8 bytes per character of a content string
MaxCharBytes == 2

\* ------------------------------------------------------ program constants
\* the content-length ceiling of create_cookie's pre-check
MaxContentLen == 300
\* the content-length ceiling of the cookies table's CHECK constraint
CheckContentLen == 300

\* ------------------------------------------------------------- the inputs
Names == 1..NumNames
Times == 0..MaxTime
\* character counts of the contents tried: empty, at the ceiling, one above it
ContentLens == {0, MaxContentLen, MaxContentLen + 1}
Contents ==
    {[chars |-> 0, width |-> 1]}
    \cup {[chars |-> n, width |-> w] : n \in ContentLens \ {0}, w \in 1..MaxCharBytes}
\* bucket ids a caller may pass: the ids the store can assign, and one more
BucketIdInputs == 0..(NumNames + 1)

NoBucket == [id |-> 0, name |-> 0, created_at |-> 0]
NoRet == [op |-> "none", ok |-> TRUE, err |-> ""]
NoResult == [ok |-> TRUE, val |-> FALSE, err |-> ""]
NoSync == [site |-> "none", ok |-> TRUE, parity |-> 0, bucket_seq |-> 0, cookie_seq |-> 0]

VARIABLES
    pc,                 \* position of main() / of the running menu flow
    schema,             \* TRUE once the two tables exist
    buckets,            \* rows of table buckets
    cookies,            \* rows of table cookies
    bucket_seq,         \* AUTOINCREMENT counter of table buckets
    cookie_seq,         \* AUTOINCREMENT counter of table cookies
    last_insert_rowid,  \* the connection's last_insert_rowid()
    ret,                \* the outcome of the last persistence operation
    bucket,             \* add_cookie_flow's local `bucket`
    result,             \* what show_main_menu returned to main's loop
    reported,           \* the error main's Err arm printed last
    exit_code,          \* "running", or how main() returned
    sync_log,           \* the last call of Database::sync: where, its outcome, the
                        \* parity of the number of calls, the rows inserted by then
    startup_syncs,      \* the outcomes of the sync calls made before the menu loop
    synced,             \* ids of the buckets whose insert a successful sync followed
    used_bucket_ids,    \* every id ever assigned to a bucket
    shown               \* the rows the last view printed

vars == <<pc, schema, buckets, cookies, bucket_seq, cookie_seq, last_insert_rowid,
          ret, bucket, result, reported, exit_code, sync_log, startup_syncs,
          synced, used_bucket_ids, shown>>

store == <<schema, buckets, cookies, bucket_seq, cookie_seq, last_insert_rowid,
           used_bucket_ids>>

\* ------------------------------------------------------------ entity model
Bucket_new(id, name, created_at) ==
    [id |-> id, name |-> name, created_at |-> created_at]

Cookie_new(id, bucket_id, content, created_at) ==
    [id |-> id, bucket_id |-> bucket_id, content |-> content, created_at |-> created_at]

\* Rust's str::len(): the number of UTF-8 bytes
len(content) == content.chars * content.width

\* SQL length() of a TEXT value: the number of characters
sql_length(content) == content.chars

\* ------------------------------------------------- the schema's constraints
\* UniqueViolation without the UNIQUE constraint
UniqueViolation_Off(name) == FALSE

\* name TEXT UNIQUE NOT NULL
UniqueViolation(name) == \E b \in buckets : b.name = name

\* content TEXT NOT NULL CHECK(length(content) <= 300)
CheckViolation(content) == sql_length(content) > CheckContentLen

\* ForeignKeyViolation without the FOREIGN KEY clause
ForeignKeyViolation_Off(bucket_id) == FALSE

\* FOREIGN KEY (bucket_id) REFERENCES buckets(id)
ForeignKeyViolation(bucket_id) == ~ \E b \in buckets : b.id = bucket_id

\* create_cookie's local pre-check
PreCheckFails(content) == len(content) > MaxContentLen

\* NextRowid handing out the id of the last row again
NextRowid_Reuse(seq) == IF seq = 0 THEN 1 ELSE seq

\* id INTEGER PRIMARY KEY AUTOINCREMENT: one more than the largest id ever used
NextRowid(seq) == seq + 1

\* ----------------------------------------------------- bucket operations
\* The outcome of create_bucket: the Result, and the store after the call.
create_bucket(name, timestamp) ==
    IF UniqueViolation(name)
    THEN [ok |-> FALSE, err |-> "Failed to create bucket", value |-> NoBucket,
          buckets |-> buckets, bucket_seq |-> bucket_seq,
          last_insert_rowid |-> last_insert_rowid]
    ELSE LET rowid == NextRowid(bucket_seq)
             row == Bucket_new(rowid, name, timestamp)
         IN  [ok |-> TRUE, err |-> "", value |-> Bucket_new(rowid, name, timestamp),
              buckets |-> buckets \cup {row}, bucket_seq |-> rowid,
              last_insert_rowid |-> rowid]

RECURSIVE SortByName(_)
SortByName(S) ==
    IF S = {} THEN <<>>
    ELSE LET first == CHOOSE b \in S : \A o \in S : b.name <= o.name
         IN  <<first>> \o SortByName(S \ {first})

\* SELECT id, name, created_at FROM buckets ORDER BY name
get_all_buckets == SortByName(buckets)

\* count_cookies_in_bucket without the WHERE clause
count_cookies_in_bucket_NoWhere(bucket_id) ==
    Cardinality(cookies)

\* SELECT COUNT(*) FROM cookies WHERE bucket_id = ?1
count_cookies_in_bucket(bucket_id) ==
    Cardinality({c \in cookies : c.bucket_id = bucket_id})

\* ----------------------------------------------------- cookie operations
create_cookie(bucket_id, content, timestamp) ==
    LET unchanged(msg) ==
            [ok |-> FALSE, err |-> msg, value |-> 0,
             cookies |-> cookies, cookie_seq |-> cookie_seq,
             last_insert_rowid |-> last_insert_rowid]
    IN  IF PreCheckFails(content)
        THEN unchanged("Cookie content must be 300 characters or less")
        ELSE IF CheckViolation(content) \/ ForeignKeyViolation(bucket_id)
        THEN unchanged("Failed to create cookie")
        ELSE LET rowid == NextRowid(cookie_seq)
                 row == Cookie_new(rowid, bucket_id, content, timestamp)
             IN  [ok |-> TRUE, err |-> "", value |-> rowid,
                  cookies |-> cookies \cup {row}, cookie_seq |-> rowid,
                  last_insert_rowid |-> rowid]

\* OrderedByCreatedAtDesc with ASC for DESC
OrderedByCreatedAtDesc_Asc(s) ==
    \A i, j \in DOMAIN s : i < j => s[i].created_at <= s[j].created_at

\* the orders in which ORDER BY created_at DESC may return the rows of S:
\* rows of equal created_at come in an order the store chooses
OrderedByCreatedAtDesc(s) ==
    \A i, j \in DOMAIN s : i < j => s[i].created_at >= s[j].created_at

RowOrders(S) ==
    {s \in [1..Cardinality(S) -> S] :
        /\ \A i, j \in DOMAIN s : i # j => s[i] # s[j]
        /\ OrderedByCreatedAtDesc(s)}

\* SELECT ... FROM cookies ORDER BY created_at DESC: the possible results
get_all_cookies == RowOrders(cookies)

\* SELECT ... FROM cookies WHERE bucket_id = ?1 ORDER BY created_at DESC
get_cookies_by_bucket(bucket_id) ==
    RowOrders({c \in cookies : c.bucket_id = bucket_id})

\* ------------------------------------------------------------------ state
InitStore ==
    /\ buckets = {}
    /\ cookies = {}
    /\ bucket_seq = 0
    /\ cookie_seq = 0
    /\ last_insert_rowid = 0
    /\ used_bucket_ids = {}
    /\ ret = NoRet

InitMain ==
    /\ bucket = NoBucket
    /\ result = NoResult
    /\ reported = ""
    /\ exit_code = "running"
    /\ sync_log = NoSync
    /\ startup_syncs = <<>>
    /\ synced = {}
    /\ shown = <<>>

\* main() before Database::new
Init ==
    /\ pc = "new"
    /\ schema = FALSE
    /\ InitStore
    /\ InitMain

\* what a call of create_bucket leaves in the store and on the connection
ApplyCreateBucket(r, name) ==
    /\ buckets' = r.buckets
    /\ bucket_seq' = r.bucket_seq
    /\ last_insert_rowid' = r.last_insert_rowid
    /\ used_bucket_ids' = used_bucket_ids \cup {b.id : b \in r.buckets \ buckets}
    /\ ret' = [op |-> "create_bucket", ok |-> r.ok, err |-> r.err,
               name |-> name, value |-> r.value]
    /\ UNCHANGED <<schema, cookies, cookie_seq>>

\* what a call of create_cookie leaves in the store and on the connection
ApplyCreateCookie(r, bucket_id, content) ==
    /\ cookies' = r.cookies
    /\ cookie_seq' = r.cookie_seq
    /\ last_insert_rowid' = r.last_insert_rowid
    /\ ret' = [op |-> "create_cookie", ok |-> r.ok, err |-> r.err,
               bucket_id |-> bucket_id, content |-> content, value |-> r.value]
    /\ UNCHANGED <<schema, buckets, bucket_seq, used_bucket_ids>>

\* ------------------------------------------- main(): the startup sequence
Exit(code) ==
    /\ pc' = "exited"
    /\ exit_code' = code

\* Database::new(db_path).await?
DatabaseNew ==
    /\ pc = "new"
    /\ \E ok \in BOOLEAN :
          IF ok THEN pc' = "connect" /\ UNCHANGED exit_code
                ELSE Exit("err")
    /\ UNCHANGED <<store, ret, bucket, result, reported, sync_log, startup_syncs,
                   synced, shown>>

\* database.connect()?
Connect ==
    /\ pc = "connect"
    /\ \E ok \in BOOLEAN :
          IF ok THEN pc' = "init_schema" /\ UNCHANGED exit_code
                ELSE Exit("err")
    /\ UNCHANGED <<store, ret, bucket, result, reported, sync_log, startup_syncs,
                   synced, shown>>

\* db::init_schema(&conn).await?
init_schema ==
    /\ pc = "init_schema"
    /\ \E ok \in BOOLEAN :
          IF ok THEN schema' = TRUE /\ pc' = "initial_sync" /\ UNCHANGED exit_code
                ELSE UNCHANGED schema /\ Exit("err")
    /\ UNCHANGED <<buckets, cookies, bucket_seq, cookie_seq, last_insert_rowid,
                   used_bucket_ids, ret, bucket, result, reported, sync_log,
                   startup_syncs, synced, shown>>

\* Database::sync called at `site`, with the outcome `ok`
sync(site, ok) ==
    /\ sync_log' = [site |-> site, ok |-> ok, parity |-> 1 - sync_log.parity,
                    bucket_seq |-> bucket_seq, cookie_seq |-> cookie_seq]
    /\ synced' = IF ok THEN {b.id : b \in buckets} ELSE synced

\* InitialSync with the error of the sync dropped
InitialSync_IgnoreError ==
    /\ pc = "initial_sync"
    /\ \E ok \in BOOLEAN :
          /\ sync("startup", ok)
          /\ startup_syncs' = Append(startup_syncs, ok)
          /\ pc' = "menu"
          /\ UNCHANGED exit_code
    /\ UNCHANGED <<store, ret, bucket, result, reported, shown>>

\* database.sync().await? before the menu loop
InitialSync ==
    /\ pc = "initial_sync"
    /\ \E ok \in BOOLEAN :
          /\ sync("startup", ok)
          /\ startup_syncs' = Append(startup_syncs, ok)
          /\ IF ok THEN pc' = "menu" /\ UNCHANGED exit_code
                   ELSE Exit("err")
    /\ UNCHANGED <<store, ret, bucket, result, reported, shown>>

\* the replica's automatic sync, every 60 seconds while the handle is open
BackgroundSync ==
    /\ pc \notin {"new", "exited"}
    /\ synced # {b.id : b \in buckets}
    /\ synced' = {b.id : b \in buckets}
    /\ UNCHANGED <<store, ret, pc, bucket, result, reported, exit_code, sync_log,
                   startup_syncs, shown>>

\* ------------------------------------------------ menu.rs: the menu flows
Ok(val) == [ok |-> TRUE, val |-> val, err |-> ""]
Err(msg) == [ok |-> FALSE, val |-> FALSE, err |-> msg]

\* show_main_menu returns `r` to the match in main's loop
Return(r) ==
    /\ result' = r
    /\ pc' = "main_match"

\* the contents the prompt's validate_with closure lets through
ValidInput(content) == content.chars # 0 /\ ~ (len(content) > MaxContentLen)

\* create_bucket(bucket_name) followed by the `?` and the step to db.sync()
CreateBucketThenSync(name, timestamp) ==
    LET r == create_bucket(name, timestamp)
    IN  /\ ApplyCreateBucket(r, name)
        /\ IF r.ok THEN /\ bucket' = r.value
                        /\ pc' = "bucket_sync"
                        /\ UNCHANGED result
                   ELSE /\ Return(Err(r.err))
                        /\ UNCHANGED bucket

\* add_cookie_flow up to the bucket, when no bucket exists yet
add_cookie_flow_first_bucket ==
    /\ pc = "menu"
    /\ Cardinality(cookies) < MaxCookies
    /\ get_all_buckets = <<>>
    /\ \E name \in Names, timestamp \in Times : CreateBucketThenSync(name, timestamp)
    /\ shown' = <<>>
    /\ UNCHANGED <<reported, exit_code, sync_log, startup_syncs, synced>>

\* add_cookie_flow up to the bucket, through select_or_create_bucket
select_or_create_bucket ==
    /\ pc = "menu"
    /\ Cardinality(cookies) < MaxCookies
    /\ get_all_buckets # <<>>
    /\ LET bs == get_all_buckets
           items == [i \in 1..Len(bs) |->
                        [bucket |-> bs[i], count |-> count_cookies_in_bucket(bs[i].id)]]
       IN  \E selection \in 1..(Len(items) + 1) :
              IF selection = Len(items) + 1
              THEN \E name \in Names, timestamp \in Times :
                      CreateBucketThenSync(name, timestamp)
              ELSE /\ bucket' = bs[selection]
                   /\ pc' = "cookie_input"
                   /\ UNCHANGED <<store, ret, result>>
    /\ shown' = <<>>
    /\ UNCHANGED <<reported, exit_code, sync_log, startup_syncs, synced>>

\* db.sync().await? right after the bucket was created
BucketSync ==
    /\ pc = "bucket_sync"
    /\ \E ok \in BOOLEAN :
          /\ sync("bucket", ok)
          /\ IF ok THEN pc' = "cookie_input" /\ UNCHANGED result
                   ELSE Return(Err("Failed to sync with remote"))
    /\ UNCHANGED <<store, ret, bucket, reported, exit_code, startup_syncs, shown>>

\* add_cookie_flow from the content prompt to its end
add_cookie_flow_create ==
    /\ pc = "cookie_input"
    /\ \E content \in {c \in Contents : ValidInput(c)}, timestamp \in Times :
          LET r == create_cookie(bucket.id, content, timestamp)
          IN  /\ ApplyCreateCookie(r, bucket.id, content)
              /\ Return(IF r.ok THEN Ok(FALSE) ELSE Err(r.err))
    /\ UNCHANGED <<bucket, reported, exit_code, sync_log, startup_syncs, synced, shown>>

\* view_all_cookies
view_all_cookies ==
    /\ pc = "menu"
    /\ \E rows \in get_all_cookies : shown' = rows
    /\ Return(Ok(FALSE))
    /\ UNCHANGED <<store, ret, bucket, reported, exit_code, sync_log, startup_syncs,
                   synced>>

\* view_cookies_by_bucket_flow
view_cookies_by_bucket_flow ==
    /\ pc = "menu"
    /\ LET bs == get_all_buckets
       IN  IF bs = <<>>
           THEN shown' = <<>>
           ELSE \E selection \in 1..Len(bs) :
                   \E rows \in get_cookies_by_bucket(bs[selection].id) : shown' = rows
    /\ Return(Ok(FALSE))
    /\ UNCHANGED <<store, ret, bucket, reported, exit_code, sync_log, startup_syncs,
                   synced>>

\* list_buckets
list_buckets ==
    /\ pc = "menu"
    /\ LET bs == get_all_buckets
       IN  shown' = [i \in 1..Len(bs) |->
                        [bucket |-> bs[i], count |-> count_cookies_in_bucket(bs[i].id)]]
    /\ Return(Ok(FALSE))
    /\ UNCHANGED <<store, ret, bucket, reported, exit_code, sync_log, startup_syncs,
                   synced>>

\* MainMenuOption::Exit => return Ok(true)
ExitOption ==
    /\ pc = "menu"
    /\ shown' = <<>>
    /\ Return(Ok(TRUE))
    /\ UNCHANGED <<store, ret, bucket, reported, exit_code, sync_log, startup_syncs,
                   synced>>

\* a prompt's interact()? or wait_for_enter()? fails with an I/O error
InteractError ==
    /\ pc \in {"menu", "cookie_input"}
    /\ shown' = <<>>
    /\ Return(Err("IO error"))
    /\ UNCHANGED <<store, ret, bucket, reported, exit_code, sync_log, startup_syncs,
                   synced>>

\* -------------------------------------------------- main(): the menu loop
\* MainLoopSync without the call of sync
MainLoopSync_NoSync ==
    /\ pc = "main_match"
    /\ result.ok /\ ~ result.val
    /\ pc' = "menu"
    /\ UNCHANGED <<store, ret, bucket, result, reported, exit_code, sync_log,
                   startup_syncs, synced, shown>>

\* Ok(false): database.sync().await? after the operation
MainLoopSync ==
    /\ pc = "main_match"
    /\ result.ok /\ ~ result.val
    /\ \E ok \in BOOLEAN :
          /\ sync("loop", ok)
          /\ IF ok THEN pc' = "menu" /\ UNCHANGED exit_code
                   ELSE Exit("err")
    /\ UNCHANGED <<store, ret, bucket, result, reported, startup_syncs, shown>>

\* MainExitSync going round the loop when the sync fails
MainExitSync_Retry ==
    /\ pc = "main_match"
    /\ result.ok /\ result.val
    /\ \E ok \in BOOLEAN :
          /\ sync("exit", ok)
          /\ IF ok THEN Exit("ok")
                   ELSE pc' = "menu" /\ UNCHANGED exit_code
    /\ UNCHANGED <<store, ret, bucket, result, reported, startup_syncs, shown>>

\* Ok(true): database.sync().await?, "Goodbye!", break
MainExitSync ==
    /\ pc = "main_match"
    /\ result.ok /\ result.val
    /\ \E ok \in BOOLEAN :
          /\ sync("exit", ok)
          /\ Exit(IF ok THEN "ok" ELSE "err")
    /\ UNCHANGED <<store, ret, bucket, result, reported, startup_syncs, shown>>

\* MainErrArm with the error propagated out of the loop
MainErrArm_Propagate ==
    /\ pc = "main_match"
    /\ ~ result.ok
    /\ reported' = result.err
    /\ pc' = "exited"
    /\ exit_code' = "err"
    /\ UNCHANGED <<store, ret, bucket, result, sync_log, startup_syncs,
                   synced, shown>>

\* Err(e): eprintln!, and the loop goes round
MainErrArm ==
    /\ pc = "main_match"
    /\ ~ result.ok
    /\ reported' = result.err
    /\ pc' = "menu"
    /\ UNCHANGED <<store, ret, bucket, result, exit_code, sync_log, startup_syncs,
                   synced, shown>>

Next ==
    \/ DatabaseNew
    \/ Connect
    \/ init_schema
    \/ InitialSync
    \/ BackgroundSync
    \/ add_cookie_flow_first_bucket
    \/ select_or_create_bucket
    \/ BucketSync
    \/ add_cookie_flow_create
    \/ view_all_cookies
    \/ view_cookies_by_bucket_flow
    \/ list_buckets
    \/ ExitOption
    \/ InteractError
    \/ MainLoopSync
    \/ MainExitSync
    \/ MainErrArm

Spec == Init /\ [][Next]_vars

\* ------------------------- the persistence operations, called with any input
InitDb ==
    /\ pc = "api"
    /\ schema = TRUE
    /\ InitStore
    /\ InitMain

DbCreateBucket ==
    /\ pc = "api"
    /\ \E name \in Names, timestamp \in Times :
          ApplyCreateBucket(create_bucket(name, timestamp), name)
    /\ UNCHANGED <<pc, bucket, result, reported, exit_code, sync_log, startup_syncs,
                   synced, shown>>

DbCreateCookie ==
    /\ pc = "api"
    /\ Cardinality(cookies) < MaxCookies
    /\ \E bucket_id \in BucketIdInputs, content \in Contents, timestamp \in Times :
          ApplyCreateCookie(create_cookie(bucket_id, content, timestamp),
                            bucket_id, content)
    /\ UNCHANGED <<pc, bucket, result, reported, exit_code, sync_log, startup_syncs,
                   synced, shown>>

NextDb ==
    \/ DbCreateBucket
    \/ DbCreateCookie

SpecDb == InitDb /\ [][NextDb]_vars

TypeOK ==
    /\ schema \in BOOLEAN
    /\ exit_code \in {"running", "ok", "err"}
    /\ bucket_seq \in 0..NumNames
    /\ cookie_seq \in 0..MaxCookies
    /\ Cardinality(cookies) <= MaxCookies
    /\ synced \subseteq used_bucket_ids

\* ======================================================= main(): the claims
LoopPcs == {"menu", "bucket_sync", "cookie_input", "main_match"}
StartupPcs == {"new", "connect", "init_schema", "initial_sync"}

\* C1: a sync that fails after a completed menu operation does not end the
\* process: the loop keeps running and the menu is presented again.
C1_FailedLoopSyncIsNonFatal ==
    (sync_log.site = "loop" /\ ~ sync_log.ok) =>
        (pc # "exited" /\ exit_code = "running")

\* C2: whenever a cookie is inserted, a successful sync lies between the
\* creation of the bucket it references and the insert.
C2_SyncBetweenBucketAndCookie ==
    [][\A c \in cookies' \ cookies : c.bucket_id \in synced]_vars

\* C3 as stated: no statement, the schema DDL included, is executed before
\* the first sync has completed.
C3_NoStatementBeforeFirstSync ==
    schema => startup_syncs # <<>>

\* C3 as amended: sync is invoked exactly once at startup, after the schema
\* DDL and before the menu loop; nothing is read from or written to the two
\* tables before it has succeeded, and its failure ends main() with the error.
C3_StartupSyncBeforeMenuLoop ==
    /\ Len(startup_syncs) <= 1
    /\ startup_syncs # <<>> => schema
    /\ (pc \in LoopPcs \/ buckets # {} \/ cookies # {} \/ ret # NoRet
           \/ result # NoResult \/ shown # <<>>)
          => startup_syncs = <<TRUE>>
    /\ startup_syncs = <<FALSE>> => (pc = "exited" /\ exit_code = "err")
    /\ (pc = "exited" /\ startup_syncs = <<>>) => exit_code = "err"

C3_Witness ==
    /\ pc = "menu"
    /\ startup_syncs = <<TRUE>>
    /\ schema
    /\ cookies # {}

\* C10: an error that a menu operation returns to the main loop is reported
\* and the menu is presented again; the process ends only in main(), at
\* startup or after show_main_menu returned Ok.
C10_MenuErrorsAreCaught ==
    [][/\ (pc = "main_match" /\ ~ result.ok /\ pc' # pc)
            => (pc' = "menu" /\ reported' = result.err /\ exit_code' = "running")
       /\ (pc' = "exited" /\ pc # "exited")
            => (pc \in StartupPcs \/ (pc = "main_match" /\ result.ok))
       /\ (pc \in {"menu", "bucket_sync", "cookie_input"})
            => (pc' \in LoopPcs /\ exit_code' = "running")]_vars

C10_Witness ==
    /\ pc = "menu"
    /\ reported = "Failed to create bucket"
    /\ ret.op = "create_bucket"
    /\ ~ ret.ok
    /\ exit_code = "running"

\* ============================================ the persistence layer: claims
\* the step is a call of `op` (ret is rewritten by every call)
Called(op) == ret' # ret /\ ret'.op = op

\* C4: with an existing bucket id, create_cookie succeeds for a content of at
\* most 300 characters, fails at the pre-check and writes nothing for a longer
\* one, and the pre-check and the CHECK constraint reject the same contents.
C4_LengthCeilingInCharacters ==
    [][(Called("create_cookie") /\ \E b \in buckets : b.id = ret'.bucket_id) =>
          /\ ret'.content.chars <= 300
                => (ret'.ok /\ cookies' # cookies)
          /\ ret'.content.chars > 300
                => (/\ ~ ret'.ok
                    /\ ret'.err = "Cookie content must be 300 characters or less"
                    /\ cookies' = cookies)
          /\ PreCheckFails(ret'.content) <=> CheckViolation(ret'.content)]_vars

\* C5: create_cookie with a bucket_id that no bucket has fails and leaves the
\* cookies table unchanged; every stored cookie references an existing bucket.
C5_ForeignKey ==
    /\ [](\A c \in cookies : \E b \in buckets : b.id = c.bucket_id)
    /\ [][(Called("create_cookie") /\ ~ \E b \in buckets : b.id = ret'.bucket_id)
            => (~ ret'.ok /\ cookies' = cookies /\ cookie_seq' = cookie_seq)]_vars

C5_Witness ==
    /\ ret.op = "create_cookie"
    /\ ~ ret.ok
    /\ ret.err = "Failed to create cookie"
    /\ ~ \E b \in buckets : b.id = ret.bucket_id
    /\ buckets # {}
    /\ cookies # {}

\* C6: no two buckets share a name; create_bucket with a name that a bucket
\* already has fails with the constraint error and leaves the table unchanged,
\* with exactly one row of that name.
C6_UniqueNames ==
    /\ [](\A b1, b2 \in buckets : b1.name = b2.name => b1 = b2)
    /\ [][(Called("create_bucket") /\ \E b \in buckets : b.name = ret'.name)
            => (/\ ~ ret'.ok
                /\ ret'.err = "Failed to create bucket"
                /\ buckets' = buckets
                /\ Cardinality({b \in buckets' : b.name = ret'.name}) = 1)]_vars

C6_Witness ==
    /\ ret.op = "create_bucket"
    /\ ~ ret.ok
    /\ Cardinality({b \in buckets : b.name = ret.name}) = 1

\* C7: a successful create_bucket(name), for a name no bucket has, returns a
\* bucket whose id no bucket was ever given; get_all_buckets then lists
\* exactly one bucket of that name, with that id, and every earlier bucket
\* unchanged.
C7_FreshIdAndListed ==
    [][(Called("create_bucket") /\ ret'.ok /\ ~ \E b \in buckets : b.name = ret'.name)
          => LET listed == get_all_buckets'
                 named == {i \in DOMAIN listed : listed[i].name = ret'.name}
             IN  /\ ret'.value.id \notin used_bucket_ids
                 /\ ret'.value.name = ret'.name
                 /\ Cardinality(named) = 1
                 /\ \A i \in named : listed[i].id = ret'.value.id
                 /\ \A b \in buckets : \E i \in DOMAIN listed : listed[i] = b
                 /\ Len(listed) = Cardinality(buckets) + 1]_vars

C7_Witness ==
    /\ ret.op = "create_bucket"
    /\ ret.ok
    /\ Cardinality(buckets) >= 2
    /\ \E i \in DOMAIN get_all_buckets : get_all_buckets[i] = ret.value

\* C8: for every bucket id, count_cookies_in_bucket equals the number of rows
\* get_cookies_by_bucket returns, and is 0 for a bucket without cookies and
\* for an id that no bucket has.
C8_CountEqualsListed ==
    \A id \in BucketIdInputs :
        /\ get_cookies_by_bucket(id) # {}
        /\ \A rows \in get_cookies_by_bucket(id) :
              count_cookies_in_bucket(id) = Len(rows)
        /\ (~ \E c \in cookies : c.bucket_id = id) => count_cookies_in_bucket(id) = 0
        /\ (~ \E b \in buckets : b.id = id) => count_cookies_in_bucket(id) = 0

C8_Witness ==
    /\ \E b \in buckets : count_cookies_in_bucket(b.id) >= 2
    /\ \E b \in buckets : count_cookies_in_bucket(b.id) = 0
    /\ \E id \in BucketIdInputs : ~ \E b \in buckets : b.id = id

\* C9: get_all_cookies returns every stored cookie exactly once, a cookie of a
\* later second before one of an earlier second; get_cookies_by_bucket returns
\* exactly the cookies of the given bucket, in the order of a get_all_cookies
\* result.
C9_NewestFirst ==
    /\ get_all_cookies # {}
    /\ \A rows \in get_all_cookies :
          /\ Len(rows) = Cardinality(cookies)
          /\ {rows[i] : i \in DOMAIN rows} = cookies
          /\ \A i, j \in DOMAIN rows :
                rows[i].created_at > rows[j].created_at => i < j
    /\ \A id \in BucketIdInputs :
          /\ get_cookies_by_bucket(id) # {}
          /\ \A rows \in get_cookies_by_bucket(id) :
                /\ {rows[i] : i \in DOMAIN rows} = {c \in cookies : c.bucket_id = id}
                /\ Len(rows) = Cardinality({c \in cookies : c.bucket_id = id})
                /\ \A i, j \in DOMAIN rows :
                      rows[i].created_at > rows[j].created_at => i < j
                /\ LET InBucket(c) == c.bucket_id = id
                   IN  \E all \in get_all_cookies : rows = SelectSeq(all, InBucket)

C9_Witness ==
    /\ Cardinality(cookies) >= 3
    /\ \E c1, c2 \in cookies :
          /\ c1.id < c2.id
          /\ c1.created_at > c2.created_at
          /\ c1.bucket_id # c2.bucket_id
    /\ \E c1, c2 \in cookies : c1 # c2 /\ c1.created_at = c2.created_at

\* the step calls Database::sync
SyncInvoked == sync_log'.parity # sync_log.parity

\* the rows inserted since Database::sync was called last
PendingWrites ==
    (bucket_seq - sync_log.bucket_seq) + (cookie_seq - sync_log.cookie_seq)

C12_ExitSyncsOnceAndTerminates ==
    /\ [][(result' # result /\ result'.ok /\ result'.val)
            => (pc = "menu" /\ pc' = "main_match" /\ ~ SyncInvoked
                /\ UNCHANGED store)]_vars
    /\ [][(pc = "main_match" /\ result.ok /\ result.val)
            => \/ /\ SyncInvoked
                  /\ sync_log'.site = "exit"
                  /\ pc' = "exited"
                  /\ exit_code' = IF sync_log'.ok THEN "ok" ELSE "err"
               \/ /\ ~ SyncInvoked
                  /\ UNCHANGED <<pc, result, exit_code>>]_vars
    /\ [][pc = "exited"
            => (pc' = "exited" /\ ~ SyncInvoked /\ UNCHANGED <<exit_code, store>>)]_vars
    /\ []((pc = "exited" /\ result.ok /\ result.val)
            => (/\ sync_log.site = "exit"
                /\ exit_code = IF sync_log.ok THEN "ok" ELSE "err"))

C12_Witness ==
    /\ pc = "exited"
    /\ result.ok
    /\ result.val
    /\ sync_log.site = "exit"
    /\ ~ sync_log.ok
    /\ exit_code = "err"
    /\ cookies # {}

====
